---- MODULE Spec2Model ----
(***************************************************************************)
(* tinybox: client-side encrypted file sharing.                            *)
(*                                                                         *)
(* The model covers the KeyManager (key-manager.ts), the crypto helpers    *)
(* (crypto.ts), the FileUploader and ShareLink components and the four     *)
(* server actions (store, list, info, fetch).                              *)
(*                                                                         *)
(* JavaScript runs one task at a time; every `await` on a WebCrypto        *)
(* promise, a server action or the clipboard is a point where another      *)
(* task (a click, a hashchange event, a React effect, another promise's    *)
(* continuation) may run.  One action of the model is one such run: from   *)
(* the resumption of a task to its next await on an external promise.      *)
(*                                                                         *)
(* Values: strings are sequences of one-character strings, byte arrays     *)
(* are sequences of numbers, null / undefined / "" are the empty sequence. *)
(***************************************************************************)
EXTENDS Integers, Sequences, FiniteSets, TLC

Null == <<>>

Truthy(x) == x /= Null

(***************************************************************************)
(* Bounds of the model.                                                    *)
(***************************************************************************)
\* Keys crypto.subtle.generateKey may hand out before the pool is exhausted.
MaxGen == 2
\* Ids the server may issue (blobs written) before it stops accepting.
MaxStored == 2
\* Clicks, fragment changes and page loads in one run.
MaxEvents == 3
\* Size of the range of the truncated digest (2^32 in the code).
HashSpace == 2

(***************************************************************************)
(* crypto.ts, text level: base64, hex, the truncated digest.               *)
(* One base64 character stands for one byte of key material.               *)
(***************************************************************************)
\* Bytes of raw key material (AES-256: 32 in the code, scaled down here).
KeyBytes == 2

B64Alphabet == {"A", "B", "+", "/"}

B64Value(c) ==
    CASE c = "A" -> 0 [] c = "B" -> 1 [] c = "+" -> 62 [] c = "/" -> 63

B64Char(v) ==
    CASE v = 0 -> "A" [] v = 1 -> "B" [] v = 62 -> "+" [] v = 63 -> "/"

\* btoa(String.fromCharCode(...bytes)): the characters, then the padding.
Btoa(bytes) == [i \in 1..Len(bytes) |-> B64Char(bytes[i])] \o <<"=">>

\* atob is "forgiving": ASCII whitespace is dropped, trailing padding is
\* dropped, and any other character outside the alphabet throws.
StripSpace(s) == SelectSeq(s, LAMBDA c : c /= " ")

StripPad(s) ==
    IF s /= <<>> /\ s[Len(s)] = "=" THEN SubSeq(s, 1, Len(s) - 1) ELSE s

AtobOk(s) == \A i \in 1..Len(StripPad(StripSpace(s))) :
                 StripPad(StripSpace(s))[i] \in B64Alphabet

Atob(s) ==
    LET t == StripPad(StripSpace(s)) IN [i \in 1..Len(t) |-> B64Value(t[i])]

\* exportKey: raw bytes to base64.
ExportKey(key) == Btoa(key)

\* importKey throws when atob throws or when crypto.subtle.importKey
\* rejects the length of the raw key.
ImportKeyOk(keyString) ==
    AtobOk(keyString) /\ Len(Atob(keyString)) = KeyBytes

ImportKey(keyString) == Atob(keyString)

\* TextEncoder.encode: the character codes.
CharCode(c) ==
    CASE c = "A" -> 65 [] c = "B" -> 66 [] c = "+" -> 43 [] c = "/" -> 47
      [] c = "=" -> 61 [] c = " " -> 32 [] c = "%" -> 37 [] OTHER -> 63

RECURSIVE SumCodes(_)
SumCodes(s) == IF s = <<>> THEN 0 ELSE CharCode(s[1]) + SumCodes(Tail(s))

\* The digest, truncated: a many-to-one function of the serialized key.
Digest(s) == SumCodes(s) % HashSpace

HexDigits ==
    <<"0","1","2","3","4","5","6","7","8","9","a","b","c","d","e","f">>

\* b.toString(16).padStart(2, "0")
Hex2(b) == <<HexDigits[(b \div 16) + 1], HexDigits[(b % 16) + 1]>>

\* generateKeyHash: hex of the truncated digest of the key STRING.
GenerateKeyHash(keyString) == Hex2(Digest(keyString))

(***************************************************************************)
(* URL fragment: getShareUrl writes it, loadFromUrl parses it.             *)
(***************************************************************************)
EncodeChar(c) ==
    CASE c = "+" -> <<"%","2","B">>
      [] c = "/" -> <<"%","2","F">>
      [] c = "=" -> <<"%","3","D">>
      [] c = " " -> <<"%","2","0">>
      [] c = "%" -> <<"%","2","5">>
      [] OTHER   -> <<c>>

RECURSIVE EncodeURIComponent(_)
EncodeURIComponent(s) ==
    IF s = <<>> THEN <<>>
    ELSE EncodeChar(s[1]) \o EncodeURIComponent(Tail(s))

IsHexPair(a, b) ==
    <<a, b>> \in {<<"2","B">>, <<"2","F">>, <<"3","D">>, <<"2","0">>, <<"2","5">>}

HexPairChar(a, b) ==
    CASE <<a, b>> = <<"2","B">> -> "+"
      [] <<a, b>> = <<"2","F">> -> "/"
      [] <<a, b>> = <<"3","D">> -> "="
      [] <<a, b>> = <<"2","0">> -> " "
      [] <<a, b>> = <<"2","5">> -> "%"

\* application/x-www-form-urlencoded decoding of one name or value.
RECURSIVE FormDecode(_)
FormDecode(s) ==
    IF s = <<>> THEN <<>>
    ELSE IF s[1] = "+" THEN <<" ">> \o FormDecode(Tail(s))
    ELSE IF s[1] = "%" /\ Len(s) >= 3 /\ IsHexPair(s[2], s[3])
         THEN <<HexPairChar(s[2], s[3])>> \o FormDecode(SubSeq(s, 4, Len(s)))
    ELSE <<s[1]>> \o FormDecode(Tail(s))

\* Position of the first c in s, or 0.
RECURSIVE IndexOf(_, _, _)
IndexOf(s, c, i) ==
    IF i > Len(s) THEN 0 ELSE IF s[i] = c THEN i ELSE IndexOf(s, c, i + 1)

\* new URLSearchParams(text).get(name): the first pair with that name.
RECURSIVE SearchParamsGet(_, _)
SearchParamsGet(text, name) ==
    IF text = <<>> THEN Null
    ELSE LET amp  == IndexOf(text, "&", 1)
             part == IF amp = 0 THEN text ELSE SubSeq(text, 1, amp - 1)
             rest == IF amp = 0 THEN <<>> ELSE SubSeq(text, amp + 1, Len(text))
             eq   == IndexOf(part, "=", 1)
             n    == IF eq = 0 THEN part ELSE SubSeq(part, 1, eq - 1)
             v    == IF eq = 0 THEN <<>> ELSE SubSeq(part, eq + 1, Len(part))
         IN IF part /= <<>> /\ FormDecode(n) = name
            THEN FormDecode(v)
            ELSE SearchParamsGet(rest, name)

KeyField == <<"k","e","y">>

\* loadFromUrl, lines 79-86: the key string carried by location.hash, or Null.
KeyFromUrl(hash) ==
    IF hash = <<>> \/ hash[1] /= "#" THEN Null
    ELSE SearchParamsGet(Tail(hash), KeyField)

\* getShareUrl, line 136: the fragment of the share URL.
ShareFragment(keyString) ==
    <<"#">> \o KeyField \o <<"=">> \o EncodeURIComponent(keyString)

(***************************************************************************)
(* crypto.ts, AES-GCM.  A ciphertext is a symbolic term: it opens only     *)
(* under the key and the iv that made it, and only if its tag is intact.   *)
(* Base64 of a ciphertext or of an iv wraps the value; atob unwraps it.    *)
(***************************************************************************)
AesGcmEncrypt(data, key, iv) ==
    [k |-> key, iv |-> iv, pt |-> data, tag |-> "ok"]

\* A decryption that does not depend on the key.
AesGcmDecryptAnyKey(ct, key, iv) == ct.iv = iv /\ ct.tag = "ok"

AesGcmDecryptOk(ct, key, iv) == ct.k = key /\ ct.iv = iv /\ ct.tag = "ok"

AesGcmDecrypt(ct) == ct.pt

ToBase64(x) == [b64 |-> x]

FromBase64(s) == s.b64

\* encryptText, lines 45-69.
EncryptText(text, key, iv) ==
    [encryptedData |-> ToBase64(AesGcmEncrypt(text, key, iv)),
     iv            |-> ToBase64(iv)]

\* decryptText, lines 72-96: rejects when the tag does not verify.
DecryptTextOk(encryptedData, key, iv) ==
    AesGcmDecryptOk(FromBase64(encryptedData), key, FromBase64(iv))

DecryptText(encryptedData) == AesGcmDecrypt(FromBase64(encryptedData))

\* encryptFile, lines 99-116.
EncryptFile(file, key, iv) ==
    [encryptedData |-> AesGcmEncrypt(file.data, key, iv), iv |-> iv]

\* A decryption that does not authenticate.
DecryptDataUnchecked(encryptedData, key, iv) == TRUE

\* A decryption that loses the first byte.
DecryptDataShort(encryptedData) ==
    IF encryptedData.pt = <<>> THEN <<>> ELSE Tail(encryptedData.pt)

\* decryptData, lines 119-128.
DecryptDataOk(encryptedData, key, iv) == AesGcmDecryptOk(encryptedData, key, iv)

DecryptData(encryptedData) == AesGcmDecrypt(encryptedData)

(***************************************************************************)
(* Metadata (FileUploader): JSON text of {fileName, fileSize, uploadDate}. *)
(* A Date is a number; its ISO string wraps it.                            *)
(***************************************************************************)
ToISOString(date) == [iso |-> date]

NewDate(isoString) == isoString.iso

JsonStringify(obj) == [text |-> "json", val |-> obj]

NotJson == [text |-> "garbage"]

JsonParseOk(text) == text.text = "json"

JsonParse(text) == text.val

\* encryptMetadata, lines 461-478.
EncryptMetadata(fileName, fileSize, uploadDate, key, iv) ==
    LET result == EncryptText(JsonStringify([fileName   |-> fileName,
                                             fileSize   |-> fileSize,
                                             uploadDate |-> ToISOString(uploadDate)]),
                              key, iv)
    IN [encryptedMetadata |-> result.encryptedData, iv |-> result.iv]

\* decryptMetadata, lines 481-498: throws when decryptText or JSON.parse throws.
DecryptMetadataOk(encryptedMetadata, key, iv) ==
    /\ DecryptTextOk(encryptedMetadata, key, iv)
    /\ JsonParseOk(DecryptText(encryptedMetadata))

DecryptMetadata(encryptedMetadata) ==
    LET metadata == JsonParse(DecryptText(encryptedMetadata))
    IN [fileName   |-> metadata.fileName,
        fileSize   |-> metadata.fileSize,
        uploadDate |-> NewDate(metadata.uploadDate)]

\* The loop without its inner catch: the first record that fails ends it.
RECURSIVE DecryptLoopAborting(_, _, _)
DecryptLoopAborting(files, key, decryptedFiles) ==
    IF files = <<>> THEN [ok |-> TRUE, files |-> decryptedFiles]
    ELSE LET encryptedFile == Head(files) IN
         IF DecryptMetadataOk(encryptedFile.encryptedMetadata, key,
                              encryptedFile.metadataIv)
         THEN LET m == DecryptMetadata(encryptedFile.encryptedMetadata) IN
              DecryptLoopAborting(Tail(files), key,
                  Append(decryptedFiles,
                         [id         |-> encryptedFile.id,
                          fileName   |-> m.fileName,
                          fileSize   |-> m.fileSize,
                          uploadDate |-> m.uploadDate,
                          uploadedAt |-> encryptedFile.uploadedAt]))
         ELSE [ok |-> FALSE, files |-> decryptedFiles]

\* loadFiles, lines 77-97: the loop over result.data.files.  A record whose
\* decryptMetadata throws is skipped by the inner catch; ok = FALSE would be
\* an exception leaving the loop for the outer catch.
RECURSIVE DecryptLoop(_, _, _)
DecryptLoop(files, key, decryptedFiles) ==
    IF files = <<>> THEN [ok |-> TRUE, files |-> decryptedFiles]
    ELSE LET encryptedFile == Head(files) IN
         IF DecryptMetadataOk(encryptedFile.encryptedMetadata, key,
                              encryptedFile.metadataIv)
         THEN LET m == DecryptMetadata(encryptedFile.encryptedMetadata) IN
              DecryptLoop(Tail(files), key,
                  Append(decryptedFiles,
                         [id         |-> encryptedFile.id,
                          fileName   |-> m.fileName,
                          fileSize   |-> m.fileSize,
                          uploadDate |-> m.uploadDate,
                          uploadedAt |-> encryptedFile.uploadedAt]))
         ELSE DecryptLoop(Tail(files), key, decryptedFiles)

(***************************************************************************)
(* Server actions (actions/index.ts) over the EncryptedFile table and the  *)
(* uploads directory.  `table` is in insertion order; `uploads` maps the   *)
(* issued ids 1..n to the blobs written.                                   *)
(***************************************************************************)
RECURSIVE Reverse(_)
Reverse(s) == IF s = <<>> THEN <<>> ELSE Append(Reverse(Tail(s)), Head(s))

\* The list in insertion order.
ListFilesOldestFirst(table, keyHash) ==
    LET found == SelectSeq(table, LAMBDA r : r.encryptionKeyHash = keyHash)
    IN [i \in 1..Len(found) |->
          [id                |-> found[i].id,
           encryptedMetadata |-> found[i].encryptedMetadata,
           metadataIv        |-> found[i].metadataIv,
           fileIv            |-> found[i].fileIv,
           uploadedAt        |-> ToISOString(found[i].createdAt)]]

\* list, lines 208-227: where encryptionKeyHash = keyHash, createdAt desc.
ListFiles(table, keyHash) ==
    LET found == SelectSeq(Reverse(table),
                           LAMBDA r : r.encryptionKeyHash = keyHash)
    IN [i \in 1..Len(found) |->
          [id                |-> found[i].id,
           encryptedMetadata |-> found[i].encryptedMetadata,
           metadataIv        |-> found[i].metadataIv,
           fileIv            |-> found[i].fileIv,
           uploadedAt        |-> ToISOString(found[i].createdAt)]]

\* info, lines 243-265: findUnique by id.
FindUnique(table, fileId) == SelectSeq(table, LAMBDA r : r.id = fileId)

\* fetch, lines 282-305: the blob file exists.
BlobExists(uploads, fileId) == fileId \in DOMAIN uploads

\* store, lines 180-188: the row created for a form; createdAt is the
\* database clock, which advances with every id issued.
Row(fileId, form) ==
    [id                |-> fileId,
     encryptedMetadata |-> form.encryptedMetadata,
     metadataIv        |-> form.metadataIv,
     fileIv            |-> form.fileIv,
     encryptionKeyHash |-> form.keyHash,
     createdAt         |-> fileId]

\* Files other clients of the same server have stored: under a key of
\* their own, which is also the key of the share link this client may be
\* given, with metadata that is the JSON this client writes or is not.
ForeignKinds == {"file", "garbage"}

\* The nonces the other client drew for its file and for its metadata.
ForeignFileIv == 0 - 1

ForeignMetadataIv == 0

ForeignForm(k, kind) ==
    [encryptedFile     |-> AesGcmEncrypt(<<9>>, k, ForeignFileIv),
     encryptedMetadata |->
         IF kind = "file"
         THEN EncryptMetadata("x", 1, 0, k, ForeignMetadataIv).encryptedMetadata
         ELSE ToBase64(AesGcmEncrypt(NotJson, k, ForeignMetadataIv)),
     metadataIv        |-> ToBase64(ForeignMetadataIv),
     keyHash           |-> GenerateKeyHash(ExportKey(k)),
     fileIv            |-> ToBase64(ForeignFileIv)]

(***************************************************************************)
(* State.                                                                  *)
(***************************************************************************)
VARIABLES
    key, keyString, keyHash,        \* KeyManager's private fields
    sessionSlot, storageOK,         \* sessionStorage["tinybox_encryption_key"]
    urlHash,                        \* window.location.hash
    keyHashStore, encryptionKeyStore, keyLoadedFromExternal,
    hasUploadedFiles, filesStore, selectedFiles, uploading, progress,
    linkSaved, clipboard,           \* ShareLink's state, the system clipboard
    effectDeps,                     \* keyHash of the render whose effect ran
    table, uploads,                 \* server: EncryptedFile rows, blob files
    storeAnswer,                    \* server: its answer to another client's store
    task,                           \* the asynchronous tasks, each at an await
    generated, nextIv,              \* keys and ivs the platform RNG has drawn
    ready,                          \* initialize() has returned on this page
    events,                         \* user and browser events so far
    toastError,                     \* the last error toast shown, if any
    saved                           \* the file the last download saved

kmVars    == <<key, keyString, keyHash>>
envVars   == <<sessionSlot, storageOK, urlHash>>
storeVars == <<keyHashStore, encryptionKeyStore, keyLoadedFromExternal,
               hasUploadedFiles, filesStore, selectedFiles, uploading, progress>>
linkVars  == <<linkSaved, clipboard>>
srvVars   == <<table, uploads, storeAnswer>>
vars == <<kmVars, envVars, storeVars, linkVars, effectDeps, srvVars, task,
          generated, nextIv, ready, events, toastError, saved>>

\* Keys generateKey can draw, and keys that exist elsewhere (other users,
\* share links received).  A drawn key is one never seen before.  "AB=",
\* "BA=" and the external "B/=" have the same truncated digest, "+A=" has
\* another.
GenPool == {<<0, 1>>, <<1, 0>>, <<62, 0>>}

ExtKeys == {<<1, 63>>}

\* The keys the next generateKey may return: the first draw is <<0, 1>>
\* (any other first draw is this one renamed), a later one any unused key.
Fresh == IF generated = {} THEN {<<0, 1>>} ELSE GenPool \ generated

\* A well-formed base64 string that is not a key (one byte short).
MalformedKeyString == <<"A", "=">>

NoKeyFragment == <<"#", "t", "=", "B">>

EmptyKeyFragment == <<"#">> \o KeyField \o <<"=">>

\* Fragments the address bar can be given.
Fragments ==
    {Null, NoKeyFragment, EmptyKeyFragment, ShareFragment(MalformedKeyString)}
    \cup {ShareFragment(ExportKey(k)) : k \in ExtKeys}
    \cup (IF clipboard = Null THEN {} ELSE {clipboard})

\* What the server holds when the page is opened.
ForeignForms ==
    {<<>>} \cup {<<ForeignForm(k, kind)>> : k \in ExtKeys, kind \in ForeignKinds}

TaskNames == {"init", "rot", "hc", "up", "dl", "cp"}

Idle == [pc |-> "idle"]

NoToast == ""

NoAnswer == ""

NoProgress == {}

Unmounted == <<"unmounted">>

Deps(h) == <<"deps", h>>

CanGenerate == Cardinality(generated) < MaxGen /\ Fresh /= {}

Init ==
    /\ key = Null /\ keyString = Null /\ keyHash = Null
    /\ storageOK \in BOOLEAN
    /\ sessionSlot \in {Null} \cup
          (IF storageOK
           THEN {ExportKey(k) : k \in ExtKeys} \cup {MalformedKeyString}
           ELSE {})
    /\ generated = {}
    /\ clipboard = Null
    /\ urlHash \in Fragments
    /\ keyHashStore = Null /\ encryptionKeyStore = Null
    /\ keyLoadedFromExternal = FALSE /\ hasUploadedFiles = FALSE
    /\ filesStore = <<>> /\ selectedFiles = <<>>
    /\ uploading = FALSE /\ progress = NoProgress
    /\ linkSaved = FALSE
    /\ effectDeps = Unmounted
    /\ \E forms \in ForeignForms :
         /\ uploads = [i \in 1..Len(forms) |-> forms[i].encryptedFile]
         /\ table = [i \in 1..Len(forms) |-> Row(i, forms[i])]
    /\ storeAnswer = NoAnswer
    /\ task = [t \in TaskNames |-> Idle]
    /\ nextIv = 1
    /\ ready = FALSE
    /\ events = 0
    /\ toastError = NoToast
    /\ saved = <<>>

(***************************************************************************)
(* loadFiles (FileUploader, lines 58-104), run by task t with the keyHash  *)
(* its closure captured.  Finish is what the caller does once loadFiles    *)
(* has returned: handleUpload's finally block, nothing for the others.     *)
(***************************************************************************)
FinishUploading(t, u) == IF t = "up" THEN FALSE ELSE u

FinishProgress(t, p) == IF t = "up" THEN NoProgress ELSE p

\* Lines 59-65: up to the await of actions.list.
LoadFilesStart(t, closureKeyHash) ==
    IF ~Truthy(closureKeyHash)
    THEN /\ filesStore' = <<>>
         /\ task' = [task EXCEPT ![t] = Idle]
         /\ uploading' = FinishUploading(t, uploading)
         /\ progress' = FinishProgress(t, progress)
    ELSE /\ task' = [task EXCEPT ![t] = [pc |-> "lf_wait", idx |-> closureKeyHash]]
         /\ progress' = FinishProgress(t, progress)   \* handleUpload, line 252
         /\ UNCHANGED <<filesStore, uploading>>

\* The server runs the list action for t's request.
ListServe(t) ==
    /\ task[t].pc = "lf_wait"
    /\ task' = [task EXCEPT ![t] =
                  [pc   |-> "lf_resp",
                   idx  |-> task[t].idx,
                   data |-> ListFiles(table, task[t].idx),
                   ok   |-> TRUE]]
    /\ UNCHANGED <<kmVars, envVars, storeVars, linkVars, effectDeps, srvVars,
                   generated, nextIv, ready, events, toastError>>
    /\ UNCHANGED saved

\* list, lines 228-234: the query throws, the action answers with an error.
ListFail(t) ==
    /\ task[t].pc = "lf_wait"
    /\ task' = [task EXCEPT ![t] =
                  [pc |-> "lf_resp", idx |-> task[t].idx, data |-> Null,
                   ok |-> FALSE]]
    /\ UNCHANGED <<kmVars, envVars, storeVars, linkVars, effectDeps, srvVars,
                   generated, nextIv, ready, events, toastError>>
    /\ UNCHANGED saved

\* Lines 67-75: the response arrives; the key is read now.
ListDeliver(t) ==
    /\ task[t].pc = "lf_resp"
    /\ IF ~task[t].ok
       THEN \* line 68 throws, lines 100-102 catch
            /\ toastError' = "Failed to load files"
            /\ task' = [task EXCEPT ![t] = Idle]
            /\ uploading' = FinishUploading(t, uploading)
            /\ progress' = FinishProgress(t, progress)
            /\ UNCHANGED filesStore
       ELSE IF ~Truthy(key)
       THEN /\ filesStore' = <<>>
            /\ task' = [task EXCEPT ![t] = Idle]
            /\ uploading' = FinishUploading(t, uploading)
            /\ progress' = FinishProgress(t, progress)
            /\ UNCHANGED toastError
       ELSE /\ task' = [task EXCEPT ![t] =
                          [pc    |-> "lf_dec",
                           idx   |-> task[t].idx,
                           files |-> task[t].data,
                           key   |-> key]]
            /\ UNCHANGED <<filesStore, uploading, progress, toastError>>
    /\ UNCHANGED <<kmVars, envVars, keyHashStore, encryptionKeyStore,
                   keyLoadedFromExternal, hasUploadedFiles, selectedFiles,
                   linkVars, effectDeps, srvVars, generated, nextIv, ready,
                   events>>
    /\ UNCHANGED saved

\* Lines 77-99: every decryptMetadata has settled; setFiles.  The awaits of
\* the loop touch only the loop's locals, so the loop is one step.
DecryptDone(t) ==
    /\ task[t].pc = "lf_dec"
    /\ LET r == DecryptLoop(task[t].files, task[t].key, <<>>) IN
         /\ filesStore' = IF r.ok THEN r.files ELSE filesStore
         /\ toastError' = IF r.ok THEN toastError ELSE "Failed to load files"
    /\ task' = [task EXCEPT ![t] = Idle]
    /\ uploading' = FinishUploading(t, uploading)
    /\ progress' = FinishProgress(t, progress)
    /\ UNCHANGED <<kmVars, envVars, keyHashStore, encryptionKeyStore,
                   keyLoadedFromExternal, hasUploadedFiles, selectedFiles,
                   linkVars, effectDeps, srvVars, generated, nextIv, ready,
                   events>>
    /\ UNCHANGED saved

(***************************************************************************)
(* KeyManager (key-manager.ts).                                            *)
(*                                                                         *)
(* setKey has two awaits.  A task inside setKey is at "import" (line 36,   *)
(* awaiting importKey) or at "hash" (line 38, awaiting generateKeyHash);   *)
(* ks is setKey's argument.  A task also remembers what it saw when it     *)
(* began: prev (the keyString then), urlAt (the key string in the URL),    *)
(* sesAt (the stored key string when it read sessionStorage), and for an   *)
(* adoption rdy (initialize() had returned).                               *)
(***************************************************************************)
\* initialize(), lines 110-127, entered at source `from` ("url", then "ses",
\* then "gen"): the source that yields a key string, as the task that awaits
\* its import.  g is the key generateKey would draw.
Acquire(from, old, g) ==
    LET urlKey == KeyFromUrl(urlHash)
        base   == [pc |-> "import", idx |-> old.idx, urlAt |-> old.urlAt,
                   prev |-> old.prev]
    IN IF from = "url" /\ Truthy(urlKey)
       THEN base @@ [src |-> "url", ks |-> urlKey, sesAt |-> Null]
       ELSE IF from \in {"url", "ses"} /\ storageOK /\ Truthy(sessionSlot)
       THEN base @@ [src |-> "ses", ks |-> sessionSlot, sesAt |-> sessionSlot]
       ELSE base @@ [src |-> "gen", ks |-> ExportKey(g),
                     sesAt |-> IF storageOK THEN sessionSlot ELSE Null]

\* The keys generateKey may draw if initialize() entered at `from` gets as
\* far as generating; {Null} when it does not get there.
Draws(from) ==
    IF (from = "url" /\ Truthy(KeyFromUrl(urlHash)))
       \/ (from \in {"url", "ses"} /\ storageOK /\ Truthy(sessionSlot))
    THEN {Null}
    ELSE IF CanGenerate THEN Fresh ELSE {}

Drawn(a, g) == IF a.src = "gen" THEN generated \cup {g} ELSE generated

\* React has run the effects of the last render (it does before it
\* dispatches a click).
EffectsFlushed == effectDeps = Deps(keyHashStore)

\* FileUploader, lines 106-127: the effect depends on initializeKey, which
\* depends on loadFiles, which depends on keyHash.  It runs after mount and
\* after every render with a changed keyHash, and calls initialize().
EffectRun ==
    /\ ~EffectsFlushed
    /\ task.init.pc = "idle"
    /\ effectDeps' = Deps(keyHashStore)
    /\ \E g \in Draws("url") :
         LET a == Acquire("url", [idx   |-> keyHashStore,
                                  urlAt |-> KeyFromUrl(urlHash),
                                  prev  |-> keyString], g) IN
           /\ task' = [task EXCEPT !.init = a]
           /\ generated' = Drawn(a, g)
    /\ UNCHANGED <<kmVars, envVars, storeVars, linkVars, srvVars, nextIv,
                   ready, events, toastError>>
    /\ UNCHANGED saved

\* The same source tried again.
RetrySource(src) == src

\* What follows a setKey that rejected: loadFromUrl (line 101) and
\* loadFromSessionStorage (line 70) catch; initializeKey (line 119) and
\* ShareLink.generateNewKey (line 85) catch and toast.
NextSource(src) == IF src = "url" THEN "ses" ELSE "gen"

\* setKey line 36-37: importKey has settled.
ImportDone(t) ==
    /\ task[t].pc = "import"
    /\ IF ImportKeyOk(task[t].ks)
       THEN /\ key' = ImportKey(task[t].ks)
            /\ keyString' = task[t].ks
            /\ task' = [task EXCEPT ![t].pc = "hash"]
            /\ UNCHANGED <<generated, keyHash, toastError>>
       ELSE \* setKey rejects before any assignment
            /\ UNCHANGED kmVars
            /\ IF t = "init" /\ task[t].src \in {"url", "ses"}
               THEN \* initialize() goes on to the next source
                    /\ \E g \in Draws(NextSource(task[t].src)) :
                         LET a == Acquire(NextSource(task[t].src), task[t], g) IN
                           /\ task' = [task EXCEPT ![t] = a]
                           /\ generated' = Drawn(a, g)
                    /\ UNCHANGED toastError
               ELSE /\ task' = [task EXCEPT ![t] = Idle]
                    /\ toastError' =
                          IF t = "init" THEN "Failed to initialize encryption key"
                          ELSE IF t = "rot" THEN "Failed to generate new key"
                          ELSE toastError
                    /\ UNCHANGED generated
    /\ UNCHANGED <<envVars, storeVars, linkVars, effectDeps, srvVars, nextIv,
                   ready, events>>
    /\ UNCHANGED saved

\* saveToSessionStorage, lines 47-55: writes this.keyString as it is now.
SaveToSessionStorage(ks, slot) ==
    IF Truthy(ks) /\ storageOK THEN ks ELSE slot

\* The fragment left where it is after an adoption.
KeepFragment(src, hash) == hash

\* loadFromUrl, lines 95-98: url.hash = "" and history.replaceState, after
\* a setKey of the URL's key; no other caller of setKey touches the URL.
EraseFragment(src, hash) == IF src = "url" THEN Null ELSE hash

\* setKey lines 38-43: generateKeyHash has settled; then, without another
\* await, whatever follows setKey in the caller:
\*   initialize()   loadFromUrl 93-100 / loadFromSessionStorage 67-68,
\*                  then initializeKey 109-118 as far as loadFiles' await;
\*   hashchange     loadFromUrl 93-100;
\*   rotate         ShareLink.generateNewKey 78-83 as far as loadFiles' await.
HashDone(t) ==
    /\ task[t].pc = "hash"
    /\ keyHash' = GenerateKeyHash(task[t].ks)
    /\ sessionSlot' = SaveToSessionStorage(keyString, sessionSlot)
    /\ encryptionKeyStore' = key
    /\ keyHashStore' = keyHash'
    /\ keyLoadedFromExternal' =
          IF task[t].src \in {"url", "ses"} THEN TRUE ELSE keyLoadedFromExternal
    /\ urlHash' = EraseFragment(task[t].src, urlHash)
    /\ linkSaved' = IF t = "rot" THEN FALSE ELSE linkSaved
    /\ ready' = IF t = "init" THEN TRUE ELSE ready
    /\ IF t = "hc"
       THEN /\ task' = [task EXCEPT ![t] = Idle]
            /\ UNCHANGED <<filesStore, uploading, progress>>
       ELSE LoadFilesStart(t, task[t].idx)
    /\ UNCHANGED <<key, keyString, storageOK, hasUploadedFiles, selectedFiles,
                   clipboard, effectDeps, srvVars, generated, nextIv, events,
                   toastError>>
    /\ UNCHANGED saved

\* setupHashChangeListener, lines 141-149: the fragment changes, the
\* listener calls loadFromUrl (lines 78-90) and does not await it.
HashChange(f) ==
    /\ events < MaxEvents /\ events' = events + 1
    /\ f /= urlHash
    /\ task.hc.pc = "idle"
    /\ urlHash' = f
    /\ task' = IF Truthy(KeyFromUrl(f))
               THEN [task EXCEPT !.hc = [pc |-> "import", src |-> "url",
                                         ks |-> KeyFromUrl(f), idx |-> Null,
                                         urlAt |-> KeyFromUrl(f), sesAt |-> Null,
                                         prev |-> keyString, rdy |-> ready]]
               ELSE task
    /\ UNCHANGED <<kmVars, sessionSlot, storageOK, storeVars, linkVars,
                   effectDeps, srvVars, generated, nextIv, ready, toastError>>
    /\ UNCHANGED saved

\* ShareLink.generateNewKey, lines 73-77, confirmed: generateKey and
\* exportKey settle, setKey is entered.  onKeyChange is the loadFiles of the
\* render the click was dispatched in.
RotateConfirm ==
    /\ events < MaxEvents /\ events' = events + 1
    /\ EffectsFlushed
    /\ task.rot.pc = "idle"
    /\ CanGenerate
    /\ \E g \in Fresh :
         /\ task' = [task EXCEPT !.rot = [pc |-> "import", src |-> "gen",
                                          ks |-> ExportKey(g), idx |-> keyHashStore,
                                          urlAt |-> Null, sesAt |-> Null,
                                          prev |-> keyString]]
         /\ generated' = generated \cup {g}
    /\ UNCHANGED <<kmVars, envVars, storeVars, linkVars, effectDeps, srvVars,
                   nextIv, ready, toastError>>
    /\ UNCHANGED saved

\* ShareLink.generateNewKey, line 74: the user answers no.
RotateDecline ==
    /\ EffectsFlushed
    /\ task.rot.pc = "idle"
    /\ UNCHANGED vars

\* ShareLink.copyShareLink, lines 61-64, with getShareUrl (lines 130-138).
CopyClick ==
    /\ events < MaxEvents /\ events' = events + 1
    /\ EffectsFlushed
    /\ task.cp.pc = "idle"
    /\ IF ~Truthy(keyString)
       THEN /\ toastError' = "Failed to copy share link"
            /\ UNCHANGED task
       ELSE /\ task' = [task EXCEPT !.cp = [pc |-> "clip",
                                            url |-> ShareFragment(keyString)]]
            /\ UNCHANGED toastError
    /\ UNCHANGED <<kmVars, envVars, storeVars, linkVars, effectDeps, srvVars,
                   generated, nextIv, ready>>
    /\ UNCHANGED saved

\* ShareLink.copyShareLink, lines 64-66: clipboard.writeText has resolved.
CopyDone ==
    /\ task.cp.pc = "clip"
    /\ clipboard' = task.cp.url
    /\ linkSaved' = TRUE
    /\ task' = [task EXCEPT !.cp = Idle]
    /\ UNCHANGED <<kmVars, envVars, storeVars, effectDeps, srvVars, generated,
                   nextIv, ready, events, toastError>>
    /\ UNCHANGED saved

\* ShareLink.copyShareLink, lines 67-70: clipboard.writeText has rejected.
CopyFail ==
    /\ task.cp.pc = "clip"
    /\ toastError' = "Failed to copy share link"
    /\ task' = [task EXCEPT !.cp = Idle]
    /\ UNCHANGED <<kmVars, envVars, storeVars, linkVars, effectDeps, srvVars,
                   generated, nextIv, ready, events>>
    /\ UNCHANGED saved

\* The page is loaded with fragment f, again in the same tab (sessionStorage
\* is kept) or in a new one (its sessionStorage is empty): everything in
\* memory is gone, the server is not.
Reload(f, sameTab) ==
    /\ events < MaxEvents /\ events' = events + 1
    /\ key' = Null /\ keyString' = Null /\ keyHash' = Null
    /\ urlHash' = f
    /\ keyHashStore' = Null /\ encryptionKeyStore' = Null
    /\ keyLoadedFromExternal' = FALSE /\ hasUploadedFiles' = FALSE
    /\ filesStore' = <<>> /\ selectedFiles' = <<>>
    /\ uploading' = FALSE /\ progress' = NoProgress
    /\ linkSaved' = FALSE
    /\ effectDeps' = Unmounted
    /\ task' = [t \in TaskNames |-> Idle]
    /\ ready' = FALSE
    /\ toastError' = NoToast
    /\ sessionSlot' = IF sameTab THEN sessionSlot ELSE Null
    /\ UNCHANGED <<storageOK, clipboard, srvVars, generated, nextIv>>
    /\ UNCHANGED saved

(***************************************************************************)
(* Upload (FileUploader.handleUpload, lines 199-268) and the store action. *)
(***************************************************************************)
\* Files the user can pick: a name and the bytes.
FileA == [name |-> "a", data |-> <<7>>]

FileB == [name |-> "b", data |-> <<>>]

Selections == {<<FileA>>, <<FileB, FileA>>}

\* setProgress((prev) => ({...prev, [id]: v})): progress is a set of
\* <<kind, n, percent>>, one per id kind-n.
SetProgress(p, kind, n, v) ==
    {x \in p : ~(x[1] = kind /\ x[2] = n)} \cup {<<kind, n, v>>}

\* setProgress(({[id]: _, ...rest}) => rest)
DropProgress(p, kind, n) == {x \in p : ~(x[1] = kind /\ x[2] = n)}

\* The form with the serialized key where the key hash belongs.
StoreFormLeaking(encryptedFileData, meta, kh) ==
    [encryptedFile     |-> encryptedFileData.encryptedData,
     encryptedMetadata |-> meta.encryptedMetadata,
     metadataIv        |-> meta.iv,
     keyHash           |-> ExportKey(encryptedFileData.encryptedData.k),
     fileIv            |-> ToBase64(encryptedFileData.iv)]

\* handleUpload, lines 234-239: the fields of the form sent to actions.store.
StoreForm(encryptedFileData, meta, kh) ==
    [encryptedFile     |-> encryptedFileData.encryptedData,
     encryptedMetadata |-> meta.encryptedMetadata,
     metadataIv        |-> meta.iv,
     keyHash           |-> kh,
     fileIv            |-> ToBase64(encryptedFileData.iv)]

\* The form with the metadata encrypted under the nonce of the content.
UploadFormOneIv(file, k, kh, iv1, iv2, now) ==
    StoreForm(EncryptFile(file, k, iv1),
              EncryptMetadata(file.name, Len(file.data), now, k, iv1), kh)

\* handleUpload, lines 219-239, for one file: both encryptions, each with
\* its own iv from crypto.getRandomValues, and the form.
UploadForm(file, k, kh, iv1, iv2, now) ==
    StoreForm(EncryptFile(file, k, iv1),
              EncryptMetadata(file.name, Len(file.data), now, k, iv2), kh)

\* The loop taking the last file of the batch whatever its position.
SendFileLast(up, i, p) ==
    /\ task' = [task EXCEPT !.up =
                  [pc      |-> "store_wait",
                   i       |-> Len(up.files),
                   files   |-> up.files,
                   key     |-> up.key,
                   keyHash |-> up.keyHash,
                   idx     |-> up.idx,
                   form    |-> UploadForm(up.files[Len(up.files)], up.key,
                                          up.keyHash, nextIv, nextIv + 1,
                                          events)]]
    /\ nextIv' = nextIv + 2
    /\ progress' = SetProgress(p, "file", i - 1, 75)

\* handleUpload, lines 213-241, for the file at position i of the batch up:
\* as far as the await of actions.store.  The awaits of encryptFile and
\* encryptMetadata touch only the handler's locals.
SendFile(up, i, p) ==
    /\ task' = [task EXCEPT !.up =
                  [pc      |-> "store_wait",
                   i       |-> i,
                   files   |-> up.files,
                   key     |-> up.key,
                   keyHash |-> up.keyHash,
                   idx     |-> up.idx,
                   form    |-> UploadForm(up.files[i], up.key, up.keyHash,
                                          nextIv, nextIv + 1, events)]]
    /\ nextIv' = nextIv + 2
    /\ progress' = SetProgress(p, "file", i - 1, 75)

\* handleFileSelect, lines 189-192 (the input is disabled while uploading).
SelectFiles(fs) ==
    /\ events < MaxEvents /\ events' = events + 1
    /\ ~uploading
    /\ selectedFiles' = fs
    /\ UNCHANGED <<kmVars, envVars, keyHashStore, encryptionKeyStore,
                   keyLoadedFromExternal, hasUploadedFiles, filesStore,
                   uploading, progress, linkVars, effectDeps, srvVars, task,
                   generated, nextIv, ready, toastError, saved>>

\* What a drop may carry.
Drops == {<<FileA>>, <<FileB>>}

\* handleDrop, lines 154-167: the document's drop listener appends the
\* dropped files to the selection, an upload running or not.
DropFiles(fs) ==
    /\ events < MaxEvents /\ events' = events + 1
    /\ selectedFiles' = selectedFiles \o fs
    /\ UNCHANGED <<kmVars, envVars, keyHashStore, encryptionKeyStore,
                   keyLoadedFromExternal, hasUploadedFiles, filesStore,
                   uploading, progress, linkVars, effectDeps, srvVars, task,
                   generated, nextIv, ready, toastError, saved>>

\* Selected-file row, lines 363-380: the row of index n shows its progress
\* once it has one, and a Delete button until then.
HasProgress(p, n) == \E x \in p : x[1] = "file" /\ x[2] = n

\* filter((_, i) => i !== index), line 195.
WithoutIndex(fs, j) == [n \in 1..(Len(fs) - 1) |-> IF n < j THEN fs[n] ELSE fs[n + 1]]

\* handleRemoveFile, lines 194-197: the Delete button of the j-th row.
RemoveFile(j) ==
    /\ events < MaxEvents /\ events' = events + 1
    /\ j \in 1..Len(selectedFiles)
    /\ ~HasProgress(progress, j - 1)
    /\ selectedFiles' = WithoutIndex(selectedFiles, j)
    /\ UNCHANGED <<kmVars, envVars, keyHashStore, encryptionKeyStore,
                   keyLoadedFromExternal, hasUploadedFiles, filesStore,
                   uploading, progress, linkVars, effectDeps, srvVars, task,
                   generated, nextIv, ready, toastError, saved>>

\* handleUpload, lines 199-241: the click (the button is enabled when
\* there is a selection, no upload is running and keyReady), the snapshot
\* of the key and the keyHash, the first file.  loadFiles is the one of the
\* render the click was dispatched in.
UploadClick ==
    /\ events < MaxEvents /\ events' = events + 1
    /\ EffectsFlushed
    /\ selectedFiles /= <<>> /\ ~uploading /\ Truthy(keyHashStore)
    /\ task.up.pc = "idle"
    /\ IF ~Truthy(key) \/ ~Truthy(keyHash)
       THEN /\ toastError' = "Encryption key not ready"
            /\ UNCHANGED <<task, nextIv, uploading, progress>>
       ELSE /\ uploading' = TRUE
            /\ SendFile([files |-> selectedFiles, key |-> key,
                         keyHash |-> keyHash, idx |-> keyHashStore], 1, progress)
            /\ UNCHANGED toastError
    /\ UNCHANGED <<kmVars, envVars, keyHashStore, encryptionKeyStore,
                   keyLoadedFromExternal, hasUploadedFiles, filesStore,
                   selectedFiles, linkVars, effectDeps, srvVars, generated,
                   ready, saved>>

\* Size of a blob: an AES-GCM ciphertext is the plaintext and the tag;
\* bytes that are no ciphertext have no tag.
BlobSize(ct) == Len(ct.pt) + (IF ct.tag = "none" THEN 0 ELSE 1)

\* A store that takes whatever it is sent.
StoreRejectsNothing(form) == FALSE

\* store, lines 155-160: the guard on the uploaded file.
StoreRejects(form) == BlobSize(form.encryptedFile) = 0

\* store, lines 152-194, succeeding: the blob is written, then the row.
StoreServe ==
    /\ task.up.pc = "store_wait"
    /\ IF StoreRejects(task.up.form)
       THEN /\ task' = [task EXCEPT !.up = [@ EXCEPT !.pc = "store_resp"] @@
                           [ok |-> FALSE, message |-> "Invalid file provided"]]
            /\ UNCHANGED srvVars
       ELSE /\ Len(uploads) < MaxStored
            /\ uploads' = Append(uploads, task.up.form.encryptedFile)
            /\ table' = Append(table, Row(Len(uploads) + 1, task.up.form))
            /\ task' = [task EXCEPT !.up = [@ EXCEPT !.pc = "store_resp"] @@
                           [ok |-> TRUE, message |-> "File uploaded successfully"]]
            /\ UNCHANGED storeAnswer
    /\ UNCHANGED <<kmVars, envVars, storeVars, linkVars, effectDeps,
                   generated, nextIv, ready, events, toastError, saved>>

\* A file of no bytes, and the store requests another client sends while
\* this page runs: well-formed fields around an empty file.
EmptyBlob == [k |-> Null, iv |-> 0, pt |-> <<>>, tag |-> "none"]

EmptyBlobForms ==
    {[ForeignForm(k, "file") EXCEPT !.encryptedFile = EmptyBlob] : k \in ExtKeys}

\* store, lines 152-194, for a request of another client: the guard, then
\* the blob and the row; the answer's code.
ForeignStore(form) ==
    /\ IF StoreRejects(form)
       THEN /\ storeAnswer' = "BAD_REQUEST"
            /\ UNCHANGED <<table, uploads>>
       ELSE /\ Len(uploads) < MaxStored
            /\ uploads' = Append(uploads, form.encryptedFile)
            /\ table' = Append(table, Row(Len(uploads) + 1, form))
            /\ storeAnswer' = "OK"
    /\ UNCHANGED <<kmVars, envVars, storeVars, linkVars, effectDeps, task,
                   generated, nextIv, ready, events, toastError, saved>>

\* store, lines 194-200: writeFile or create throws; wrote says whether the
\* blob had been written by then.
StoreFail(wrote) ==
    /\ task.up.pc = "store_wait"
    /\ wrote => Len(uploads) < MaxStored
    /\ uploads' = IF wrote THEN Append(uploads, task.up.form.encryptedFile)
                  ELSE uploads
    /\ task' = [task EXCEPT !.up = [@ EXCEPT !.pc = "store_resp"] @@
                   [ok |-> FALSE, message |-> "File upload failed"]]
    /\ UNCHANGED <<kmVars, envVars, storeVars, linkVars, effectDeps, table,
                   storeAnswer, generated, nextIv, ready, events, toastError,
                   saved>>

\* An error without a message.
SilentMessage == ""

\* The message of the DOMException (an Error) that crypto.subtle.encrypt
\* or decrypt rejects with; lines 263 and 324 show error.message.
OperationErrorMessage == "OperationError"

\* handleUpload, lines 222-223 and 261-267: encryptFile or encryptMetadata
\* of the file the loop is at rejects (file.arrayBuffer or
\* crypto.subtle.encrypt throws), so its form is never sent; catch and
\* finally.
EncryptFail ==
    /\ task.up.pc = "store_wait"
    /\ toastError' = OperationErrorMessage
    /\ uploading' = FALSE
    /\ progress' = NoProgress
    /\ task' = [task EXCEPT !.up = Idle]
    /\ UNCHANGED <<kmVars, envVars, keyHashStore, encryptionKeyStore,
                   keyLoadedFromExternal, hasUploadedFiles, filesStore,
                   selectedFiles, linkVars, effectDeps, srvVars, generated,
                   nextIv, ready, events, saved>>

\* handleUpload, lines 241-267: the answer of actions.store arrives.
StoreDeliver ==
    /\ task.up.pc = "store_resp"
    /\ IF ~task.up.ok
       THEN \* line 246 throws; catch and finally
            /\ toastError' = task.up.message
            /\ uploading' = FALSE
            /\ progress' = NoProgress
            /\ task' = [task EXCEPT !.up = Idle]
            /\ UNCHANGED <<selectedFiles, hasUploadedFiles, filesStore, nextIv>>
       ELSE IF task.up.i < Len(task.up.files)
       THEN \* the next file of the batch
            /\ SendFile(task.up, task.up.i + 1,
                        SetProgress(progress, "file", task.up.i - 1, 100))
            /\ UNCHANGED <<selectedFiles, hasUploadedFiles, filesStore,
                           uploading, toastError>>
       ELSE \* lines 250-260: the batch is done
            /\ selectedFiles' = <<>>
            /\ hasUploadedFiles' = TRUE
            /\ LoadFilesStart("up", task.up.idx)
            /\ UNCHANGED <<nextIv, toastError>>
    /\ UNCHANGED <<kmVars, envVars, keyHashStore, encryptionKeyStore,
                   keyLoadedFromExternal, linkVars, effectDeps, srvVars,
                   generated, ready, events, saved>>

(***************************************************************************)
(* Download (FileUploader.handleDownload, lines 270-333) with the info and *)
(* fetch actions.                                                          *)
(***************************************************************************)
\* info, lines 258-265: what is answered for a row.
InfoOf(row) ==
    [id                |-> row.id,
     encryptedMetadata |-> row.encryptedMetadata,
     metadataIv        |-> row.metadataIv,
     fileIv            |-> row.fileIv,
     encryptionKeyHash |-> row.encryptionKeyHash,
     uploadedAt        |-> ToISOString(row.createdAt)]

IsDownloading(p, fileId) == \E x \in p : x[1] = "download" /\ x[2] = fileId

\* handleDownload, lines 270-284: the click on the i-th file of the list
\* (the button is enabled when keyReady and that file is not downloading),
\* the snapshot of the key, as far as the await of info and fetch.
DownloadClick(i) ==
    /\ events < MaxEvents /\ events' = events + 1
    /\ EffectsFlushed
    /\ i \in 1..Len(filesStore)
    /\ Truthy(keyHashStore) /\ ~IsDownloading(progress, filesStore[i].id)
    /\ task.dl.pc = "idle"
    /\ IF ~Truthy(key)
       THEN /\ toastError' = "Encryption key not ready"
            /\ UNCHANGED <<task, progress>>
       ELSE /\ task' = [task EXCEPT !.dl = [pc       |-> "dl_wait",
                                            fileInfo |-> filesStore[i],
                                            key      |-> key]]
            /\ progress' = SetProgress(progress, "download", filesStore[i].id, 25)
            /\ UNCHANGED toastError
    /\ UNCHANGED <<kmVars, envVars, keyHashStore, encryptionKeyStore,
                   keyLoadedFromExternal, hasUploadedFiles, filesStore,
                   selectedFiles, uploading, linkVars, effectDeps, srvVars,
                   generated, nextIv, ready, saved>>

\* What readFile returns for a blob: the bytes written, or, the file
\* having been damaged on disk, bytes whose tag no longer verifies.
ReadBlob(ct, intact) == IF intact THEN ct ELSE [ct EXCEPT !.tag = "bad"]

\* info and fetch both answer: a row or NOT_FOUND, a blob or NOT_FOUND.
DownloadServe(intact) ==
    /\ task.dl.pc = "dl_wait"
    /\ LET fileId == task.dl.fileInfo.id
           found  == FindUnique(table, fileId)
       IN task' = [task EXCEPT !.dl =
                     [pc       |-> "dl_resp",
                      fileInfo |-> task.dl.fileInfo,
                      key      |-> task.dl.key,
                      info     |-> IF found = <<>> THEN <<>>
                                   ELSE <<InfoOf(found[1])>>,
                      data     |-> IF BlobExists(uploads, fileId)
                                   THEN <<ToBase64(ReadBlob(uploads[fileId],
                                                            intact))>>
                                   ELSE <<>>]]
    /\ UNCHANGED <<kmVars, envVars, storeVars, linkVars, effectDeps, srvVars,
                   generated, nextIv, ready, events, toastError, saved>>

\* info, lines 252-257 and 266-273, or fetch, lines 292-297 and 306-313:
\* the action named by lost answers with an error (the row or the blob is
\* not found, or the server fails); the other one answers.
DownloadFail(lost) ==
    /\ task.dl.pc = "dl_wait"
    /\ LET fileId == task.dl.fileInfo.id
           found  == FindUnique(table, fileId)
       IN task' = [task EXCEPT !.dl =
                     [pc       |-> "dl_resp",
                      fileInfo |-> task.dl.fileInfo,
                      key      |-> task.dl.key,
                      info     |-> IF lost = "info" \/ found = <<>> THEN <<>>
                                   ELSE <<InfoOf(found[1])>>,
                      data     |-> IF lost = "fetch"
                                      \/ ~BlobExists(uploads, fileId)
                                   THEN <<>>
                                   ELSE <<ToBase64(uploads[fileId])>>]]
    /\ UNCHANGED <<kmVars, envVars, storeVars, linkVars, effectDeps, srvVars,
                   generated, nextIv, ready, events, toastError, saved>>

\* handleDownload, lines 286-332: both answers are in; decryptData; the
\* browser saves the file.
DownloadDeliver ==
    /\ task.dl.pc = "dl_resp"
    /\ LET dl == task.dl IN
       IF dl.info = <<>> \/ dl.data = <<>>
       THEN /\ toastError' = "Failed to fetch file"
            /\ progress' = DropProgress(progress, "download", dl.fileInfo.id)
            /\ task' = [task EXCEPT !.dl = Idle]
            /\ UNCHANGED saved
       ELSE IF ~DecryptDataOk(FromBase64(dl.data[1]), dl.key,
                              FromBase64(dl.info[1].fileIv))
       THEN /\ toastError' = OperationErrorMessage
            /\ progress' = DropProgress(progress, "download", dl.fileInfo.id)
            /\ task' = [task EXCEPT !.dl = Idle]
            /\ UNCHANGED saved
       ELSE /\ saved' = <<[name |-> dl.fileInfo.fileName,
                           data |-> DecryptData(FromBase64(dl.data[1]))]>>
            /\ progress' = SetProgress(progress, "download", dl.fileInfo.id, 100)
            /\ task' = [task EXCEPT !.dl = [pc |-> "dl_timer",
                                            fileInfo |-> dl.fileInfo]]
            /\ UNCHANGED toastError
    /\ UNCHANGED <<kmVars, envVars, keyHashStore, encryptionKeyStore,
                   keyLoadedFromExternal, hasUploadedFiles, filesStore,
                   selectedFiles, uploading, linkVars, effectDeps, srvVars,
                   generated, nextIv, ready, events>>

\* handleDownload, lines 315-321: the timer set after a download fires.
DownloadTimer ==
    /\ task.dl.pc = "dl_timer"
    /\ progress' = DropProgress(progress, "download", task.dl.fileInfo.id)
    /\ task' = [task EXCEPT !.dl = Idle]
    /\ UNCHANGED <<kmVars, envVars, keyHashStore, encryptionKeyStore,
                   keyLoadedFromExternal, hasUploadedFiles, filesStore,
                   selectedFiles, uploading, linkVars, effectDeps, srvVars,
                   generated, nextIv, ready, events, toastError, saved>>

(***************************************************************************)
(* Specifications.                                                         *)
(***************************************************************************)
KeyTasks == {"init", "rot", "hc"}

LoadTasks == {"init", "rot", "up"}

\* Key management: acquisition, rotation, link adoption, copying the link,
\* reloads; the server holds no files.
NextKey ==
    \/ EffectRun
    \/ \E t \in KeyTasks : ImportDone(t)
    \/ \E t \in KeyTasks : HashDone(t)
    \/ \E f \in Fragments : HashChange(f)
    \/ RotateConfirm
    \/ RotateDecline
    \/ CopyClick
    \/ CopyDone
    \/ CopyFail
    \/ \E t \in LoadTasks : ListServe(t)
    \/ \E t \in LoadTasks : ListDeliver(t)
    \/ \E t \in LoadTasks : DecryptDone(t)
    \/ \E f \in Fragments, sameTab \in BOOLEAN : Reload(f, sameTab)

InitKey == Init /\ table = <<>>

SpecKey == InitKey /\ [][NextKey]_vars

\* Files: upload, enumeration and download under rotation and adoption of
\* a received link, beside other clients of the server; the page is
\* opened without a fragment and session storage works.
InitFiles == Init /\ storageOK /\ urlHash = Null /\ sessionSlot = Null

SharedLinks == {ShareFragment(ExportKey(k)) : k \in ExtKeys}

NextFiles ==
    \/ EffectRun
    \/ \E t \in KeyTasks : ImportDone(t)
    \/ \E t \in KeyTasks : HashDone(t)
    \/ \E f \in SharedLinks : HashChange(f)
    \/ RotateConfirm
    \/ \E fs \in Selections : SelectFiles(fs)
    \/ UploadClick
    \/ StoreServe
    \/ \E wrote \in BOOLEAN : StoreFail(wrote)
    \/ EncryptFail
    \/ StoreDeliver
    \/ \E form \in EmptyBlobForms : ForeignStore(form)
    \/ \E t \in LoadTasks : ListServe(t)
    \/ \E t \in LoadTasks : ListFail(t)
    \/ \E t \in LoadTasks : ListDeliver(t)
    \/ \E t \in LoadTasks : DecryptDone(t)
    \/ \E i \in 1..MaxStored : DownloadClick(i)
    \/ \E intact \in BOOLEAN : DownloadServe(intact)
    \/ \E lost \in {"info", "fetch"} : DownloadFail(lost)
    \/ DownloadDeliver
    \/ DownloadTimer

SpecFiles == InitFiles /\ [][NextFiles]_vars

\* The same with what the platform guarantees of an upload: the server
\* answers every store and list request, and a settled promise's
\* continuation runs.
UploadFairness ==
    /\ WF_vars(StoreServe \/ (\E wrote \in BOOLEAN : StoreFail(wrote)))
    /\ WF_vars(StoreDeliver)
    /\ WF_vars(ListServe("up") \/ ListFail("up"))
    /\ WF_vars(ListDeliver("up"))
    /\ WF_vars(DecryptDone("up"))

SpecFilesFair == SpecFiles /\ UploadFairness

\* One page with a generated key, its selection edited by the file input,
\* by drops and by the Delete buttons while it uploads.
NextSelect ==
    \/ EffectRun
    \/ ImportDone("init")
    \/ HashDone("init")
    \/ \E fs \in Selections : SelectFiles(fs)
    \/ \E fs \in Drops : DropFiles(fs)
    \/ \E j \in 1..Len(selectedFiles) : RemoveFile(j)
    \/ UploadClick
    \/ StoreServe
    \/ \E wrote \in BOOLEAN : StoreFail(wrote)
    \/ EncryptFail
    \/ StoreDeliver
    \/ \E t \in LoadTasks : ListServe(t)
    \/ \E t \in LoadTasks : ListFail(t)
    \/ \E t \in LoadTasks : ListDeliver(t)
    \/ \E t \in LoadTasks : DecryptDone(t)

SpecSelect == InitFiles /\ [][NextSelect]_vars

(***************************************************************************)
(* Properties.                                                             *)
(***************************************************************************)
\* The metadata of a listed record was encrypted under k with the record's
\* own metadata nonce, and is the JSON text of a metadata object.
MadeUnder(rec, k) ==
    LET ct == rec.encryptedMetadata.b64 IN
      /\ ct.k = k /\ ct.iv = rec.metadataIv.b64 /\ ct.tag = "ok"
      /\ ct.pt.text = "json"

\* The file view of such a record.
ViewOf(rec) ==
    LET m == rec.encryptedMetadata.b64.pt.val IN
      [id |-> rec.id, fileName |-> m.fileName, fileSize |-> m.fileSize,
       uploadDate |-> m.uploadDate.iso, uploadedAt |-> rec.uploadedAt]

ViewsUnder(files, k) ==
    LET mine == SelectSeq(files, LAMBDA r : MadeUnder(r, k))
    IN [i \in 1..Len(mine) |-> ViewOf(mine[i])]

\* Task t ends its enumeration in this step.
Enumerated(t) ==
    /\ task[t].pc = "lf_dec" /\ task'[t].pc /= "lf_dec"
    /\ events' = events

\* C1: whatever list the server returned for an index and whatever key K
\* the enumeration holds, when the enumeration ends the displayed list is
\* exactly one view per returned record whose metadata was encrypted under
\* K with that record's metadata nonce, in the order returned - none for a
\* record of another key that shares the index, none for undecodable
\* metadata - and no error is reported.
C1_CollisionTolerantEnumeration ==
    [][\A t \in LoadTasks :
         Enumerated(t) =>
            /\ filesStore' = ViewsUnder(task[t].files, task[t].key)
            /\ toastError' = toastError]_vars

\* C1 witness: an enumeration has ended with a file in the list while the
\* index of the held key also holds a record that does not open under it.
C1_Witness ==
    /\ \A t \in LoadTasks : task[t].pc = "idle"
    /\ filesStore /= <<>>
    /\ Len(filesStore) < Len(ListFiles(table, keyHash))
    /\ \E i \in DOMAIN table :
         /\ table[i].encryptionKeyHash = keyHash
         /\ table[i].encryptedMetadata.b64.k /= key

\* C2: every row of the table is stored under the public index of the very
\* key that encrypted its blob and its metadata, whenever the upload that
\* made it was started.
C2_IndexOfEncryptingKey ==
    \A i \in DOMAIN table :
       LET k == table[i].encryptedMetadata.b64.k IN
         /\ uploads[table[i].id].k = k
         /\ table[i].encryptionKeyHash = GenerateKeyHash(ExportKey(k))

\* Every serialized key there is.
SecretStrings == {ExportKey(k) : k \in GenPool \cup ExtKeys}

\* A ciphertext as AES-GCM makes it, whose plaintext is x.
CiphertextOf(ct, x) == ct = AesGcmEncrypt(x, ct.k, ct.iv)

\* What travels to the store action for the file at position i of a batch.
FormCarriesNoSecret(form, file) ==
    /\ form.keyHash \notin SecretStrings
    /\ CiphertextOf(form.encryptedFile, file.data)
    /\ CiphertextOf(FromBase64(form.encryptedMetadata),
                    FromBase64(form.encryptedMetadata).pt)
    /\ FromBase64(form.encryptedMetadata).pt.text = "json"
    /\ FromBase64(form.metadataIv) \in Int
    /\ FromBase64(form.fileIv) \in Int

\* C3: every request in flight to list, store, info or fetch carries the
\* public index, ciphertexts, nonces and object ids and no serialized key;
\* nor does any row the server holds, nor the keyHash the components see.
C3_SecretNeverSent ==
    /\ \A t \in LoadTasks :
         task[t].pc = "lf_wait" => task[t].idx \notin SecretStrings
    /\ task.up.pc = "store_wait" =>
         FormCarriesNoSecret(task.up.form, task.up.files[task.up.i])
    /\ task.dl.pc = "dl_wait" => task.dl.fileInfo.id \in 1..Len(uploads)
    /\ \A i \in DOMAIN table : table[i].encryptionKeyHash \notin SecretStrings
    /\ keyHashStore \notin SecretStrings

\* C3 witness: a store request is in flight for the key whose serialized
\* form is held and in the session slot.
C3_Witness ==
    /\ task.up.pc = "store_wait"
    /\ task.up.key = key /\ keyString \in SecretStrings
    /\ sessionSlot = keyString

\* initialize() returns in this step (setKey's last resumption in it).
InitReturns ==
    /\ task.init.pc = "hash" /\ task'.init.pc /= "hash"
    /\ events' = events

\* The outcome the precedence prescribes for what initialize() found: the
\* URL's key string when it began, the stored one when it looked.
Prescribed(a) ==
    IF ImportKeyOk(a.urlAt) THEN "url"
    ELSE IF ImportKeyOk(a.sesAt) THEN "ses" ELSE "gen"

\* The key string the source named by an outcome supplied.
Supplied(a) ==
    IF a.src = "url" THEN a.urlAt ELSE IF a.src = "ses" THEN a.sesAt ELSE a.ks

\* C4: initialize() returns the outcome strict precedence prescribes
\* (from-url over from-session over generated), and on return the held
\* secret is the one its source supplied - a generated one being fresh -
\* and a URL key has overwritten the session slot.
C4_InitializePrecedence ==
    [][InitReturns =>
         /\ task.init.src = Prescribed(task.init)
         /\ key' = ImportKey(Supplied(task.init))
         /\ keyString' = Supplied(task.init)
         /\ (task.init.src = "gen" => keyString' /= task.init.prev)
         /\ (task.init.src = "url" /\ storageOK => sessionSlot' = task.init.urlAt)]_vars

\* Task t's setKey completes in this step: the acquisition it is part of
\* (initialize, rotation, adoption) has its key.
SetKeyCompletes(t) ==
    /\ task[t].pc = "hash" /\ task'[t].pc /= "hash"
    /\ events' = events

\* C5: whenever initialize(), a rotation or an adoption has completed, the
\* session slot holds the serialized held secret; and an initialize() that
\* finds no key in the URL and that slot filled (a reload) returns
\* from-session holding the slot's secret under its public index.
C5_PersistedOnEveryPath ==
    [][/\ \A t \in KeyTasks :
            SetKeyCompletes(t) => sessionSlot' = ExportKey(key')
       /\ InitReturns /\ ~Truthy(task.init.urlAt) /\ Truthy(task.init.sesAt) =>
            /\ task.init.src = "ses"
            /\ key' = ImportKey(task.init.sesAt)
            /\ keyHash' = GenerateKeyHash(task.init.sesAt)]_vars

\* initialize() is entered in this step.
InitializeBegins == task.init.pc = "idle" /\ task'.init.pc = "import"

\* C6: once initialize() has completed on a page, initialize() is not
\* entered again, and the held secret changes only when a rotation's or an
\* adoption's setKey installs its key.
C6_InitializedOncePerSession ==
    [][ready /\ ready' =>
         /\ ~InitializeBegins
         /\ (key' /= key =>
               \E t \in {"rot", "hc"} :
                  task[t].pc = "import" /\ task'[t].pc = "hash")]_vars

\* C7: when a confirmed rotation has installed its key (setKey has
\* completed and ShareLink has cleared its acknowledgement), the held
\* secret is the one just generated and differs from the one held at the
\* click, keyHash is its public index, the session slot holds its
\* serialized form, and linkSaved is false.
C7_RotatePostcondition ==
    [][SetKeyCompletes("rot") =>
         /\ keyString' = task.rot.ks /\ key' = ImportKey(task.rot.ks)
         /\ keyString' /= task.rot.prev
         /\ keyHash' = GenerateKeyHash(ExportKey(key'))
         /\ sessionSlot' = ExportKey(key')
         /\ linkSaved' = FALSE]_vars

\* s is t, or t with one element appended.
Extends(s, t) ==
    \/ s = t
    \/ Len(s) = Len(t) + 1 /\ SubSeq(s, 1, Len(t)) = t

\* The key under which the metadata of the row with this id was encrypted.
KeyOfRow(fileId) == FindUnique(table, fileId)[1].encryptedMetadata.b64.k

\* C8: no step deletes or changes a row or a blob - rows and blobs are only
\* added - and an enumeration that ends shows only files whose records were
\* encrypted under the key it ran with: after a rotation none of the files
\* of the previous secret, also when they are in the new index's bucket.
C8_OrphanedNotDeleted ==
    [][/\ Extends(table', table) /\ Extends(uploads', uploads)
       /\ \A t \in LoadTasks :
            Enumerated(t) =>
               \A i \in DOMAIN filesStore' :
                  KeyOfRow(filesStore'[i].id) = task[t].key]_vars

\* C8 witness: a file this page uploaded under its first key is in the
\* bucket of the key it rotated to, every enumeration has ended, none has
\* failed, and the list is empty.
C8_Witness ==
    /\ Cardinality(generated) = 2 /\ key \in generated
    /\ keyHash = GenerateKeyHash(keyString)
    /\ \A t \in TaskNames : task[t].pc = "idle"
    /\ EffectsFlushed
    /\ filesStore = <<>> /\ hasUploadedFiles /\ toastError = NoToast
    /\ \E i \in DOMAIN table :
         /\ table[i].encryptionKeyHash = keyHash
         /\ table[i].encryptedMetadata.b64.k \in generated \ {key}
         /\ table[i].encryptionKeyHash =
               GenerateKeyHash(ExportKey(table[i].encryptedMetadata.b64.k))

\* No setKey is between its entry and its return.
NoSetKeyInFlight == \A t \in KeyTasks : task[t].pc \notin {"import", "hash"}

\* Task t sends its list request in this step.
EnumerationStarts(t) == task[t].pc /= "lf_wait" /\ task'[t].pc = "lf_wait"

\* C9: an upload batch encrypts every file under the key it read at the
\* click, a download decrypts under the key it read at the click, an
\* enumeration shows what opens under the key it read; and the enumeration
\* a completed rotation starts (no other setKey in flight) asks for the
\* public index of the new secret.
C9_SnapshotUnderRotation ==
    [][/\ (task.up.pc = "store_wait" /\ Len(table') > Len(table) =>
             /\ table'[Len(table')].encryptedMetadata.b64.k = task.up.key
             /\ uploads'[Len(uploads')].k = task.up.key)
       /\ (task.dl.pc = "dl_resp" /\ saved' /= saved =>
             FromBase64(task.dl.data[1]).k = task.dl.key)
       /\ (\A t \in LoadTasks :
             Enumerated(t) =>
                filesStore' = ViewsUnder(task[t].files, task[t].key))
       /\ (SetKeyCompletes("rot") /\ EnumerationStarts("rot")
             /\ NoSetKeyInFlight' =>
             /\ keyHash' = GenerateKeyHash(ExportKey(key'))
             /\ task'.rot.idx = keyHash')]_vars

\* The fragment changes in this step and the listener runs (the page is
\* not loaded anew, the change is not the erasure after an adoption).
HashChanges ==
    /\ urlHash' /= urlHash /\ events' /= events /\ effectDeps' = effectDeps

\* C10: once initialized, when the adoption of a changed fragment carrying
\* a valid key K completes, the held secret is K, keyHash is K's public
\* index and the session slot holds K's serialized form - the same state
\* if K was held already; a change to a fragment that is absent, empty or
\* without the key field starts nothing, reports no error and leaves
\* secret, index and slot as they were.
C10_HashChangeAdoption ==
    [][/\ (SetKeyCompletes("hc") /\ task.hc.rdy =>
             /\ keyString' = task.hc.ks /\ key' = ImportKey(task.hc.ks)
             /\ keyHash' = GenerateKeyHash(task.hc.ks)
             /\ sessionSlot' = task.hc.ks)
       /\ (ready /\ HashChanges /\ ~Truthy(KeyFromUrl(urlHash')) =>
             /\ UNCHANGED <<key, keyString, keyHash, sessionSlot, toastError>>
             /\ UNCHANGED task)]_vars

\* The key string of the URL is being adopted by initialize() or by the
\* hashchange listener.
UrlKeyInAdoption ==
    \E t \in {"init", "hc"} :
       /\ task[t].pc \in {"import", "hash"} /\ task[t].src = "url"
       /\ task[t].ks = KeyFromUrl(urlHash)

\* The fragment carries a key that importKey accepts.
Adoptable(hash) ==
    Truthy(KeyFromUrl(hash)) /\ ImportKeyOk(KeyFromUrl(hash))

\* C11: in the step in which an adoption of the URL's key reports success
\* the fragment is erased; so a valid key is in the URL only before the
\* page's first initialize() or while its adoption is under way, and no
\* later initialize() finds an adopted key in the URL again.
C11_FragmentConsumed ==
    /\ [][\A t \in KeyTasks :
             SetKeyCompletes(t) /\ task[t].src = "url" => urlHash' = Null]_vars
    /\ [](\/ urlHash \in {Null, NoKeyFragment, EmptyKeyFragment}
          \/ effectDeps = Unmounted
          \/ UrlKeyInAdoption
          \/ ~Adoptable(urlHash))

\* C11 witness: the key of a share link is held, with its index; session
\* storage never held it, so it came from the URL; the fragment is empty.
C11_Witness ==
    /\ ~storageOK /\ urlHash = Null
    /\ keyString \in {ExportKey(k) : k \in ExtKeys}
    /\ keyHash = GenerateKeyHash(keyString)
    /\ keyLoadedFromExternal

\* The setKey of task t rejects in this step (importKey threw).
SetKeyRejects(t) ==
    /\ task[t].pc = "import" /\ ~ImportKeyOk(task[t].ks)
    /\ task'[t] /= task[t]
    /\ events' = events

ShareUrlReturned == task.cp.pc = "idle" /\ task'.cp.pc = "clip"

\* The initialize() that returns in this step began in a page opened with
\* the copied share link, and the session storage has been empty since.
OpenedFromShareLink ==
    /\ InitReturns
    /\ Truthy(clipboard) /\ Truthy(task.init.urlAt)
    /\ task.init.urlAt = KeyFromUrl(clipboard)
    /\ sessionSlot = Null

\* C13: getShareUrl changes nothing of the KeyManager and the fragment it
\* builds parses back to the held key string; and an initialize() of a
\* page opened with the copied link, with empty session storage, returns
\* from-url holding the secret of the link under that secret's index.
C13_ShareLinkRoundTrip ==
    [][/\ ShareUrlReturned =>
            /\ UNCHANGED <<kmVars, sessionSlot, urlHash, keyHashStore,
                           encryptionKeyStore, keyLoadedFromExternal>>
            /\ KeyFromUrl(task'.cp.url) = keyString
            /\ ImportKey(KeyFromUrl(task'.cp.url)) = key
       /\ OpenedFromShareLink =>
            /\ task.init.src = "url"
            /\ key' = ImportKey(task.init.urlAt)
            /\ keyString' = task.init.urlAt
            /\ keyHash' = GenerateKeyHash(task.init.urlAt)]_vars

\* A setKey has completed since the page was loaded (keyHash is assigned by
\* setKey's last resumption only).
KeyAdopted == Truthy(keyHash)

\* C14: getShareUrl returns a URL only after a key has been adopted - a
\* call before that, the first initialize() still running, throws - and
\* the URL it returns carries the held key string and no other.
C14_ShareUrlNeedsKey ==
    [][ShareUrlReturned =>
          /\ KeyAdopted
          /\ Truthy(keyString)
          /\ KeyFromUrl(task'.cp.url) = keyString]_vars

\* The server stores the file the upload is at, in this step.
Stored ==
    /\ task.up.pc = "store_wait" /\ task'.up.pc = "store_resp"
    /\ task'.up.ok

\* The download whose answers are in ends in this step.
DownloadEnds ==
    /\ task.dl.pc = "dl_resp" /\ task'.dl.pc /= "dl_resp"
    /\ events' = events

\* The view the list shows for a row made by this client's upload code.
ShownFor(r) ==
    LET m == r.encryptedMetadata.b64.pt.val IN
      [id |-> r.id, fileName |-> m.fileName, fileSize |-> m.fileSize,
       uploadDate |-> m.uploadDate.iso, uploadedAt |-> ToISOString(r.createdAt)]

\* C15: end to end, in three links joined by what the server holds.
\* (1) What store keeps for a file of a batch is, under the batch's key k
\* and the batch's index, a record of the file's name, size and upload
\* date and a blob of the file's bytes, with the nonces that made them.
\* (2) The enumeration that follows the batch, if it still holds k, shows
\* every such record with that name, size and date.  (3) A download of a
\* shown file whose record and blob the server returns, still holding the
\* k the blob was made under, saves exactly the bytes and the name, with
\* no error.
C15_EndToEndRoundTrip ==
    [][/\ Stored =>
            LET up == task.up
                f  == up.files[up.i]
                r  == table'[Len(table')]
                b  == uploads'[Len(uploads')]
            IN /\ Len(table') = Len(table) + 1
               /\ Len(uploads') = Len(uploads) + 1
               /\ r.id = Len(uploads')
               /\ r.encryptionKeyHash = up.idx
               /\ MadeUnder(r, up.key)
               /\ ShownFor(r).fileName = f.name
               /\ ShownFor(r).fileSize = Len(f.data)
               /\ ShownFor(r).uploadDate \in 0..events
               /\ b.k = up.key /\ b.pt = f.data /\ b.tag = "ok"
               /\ r.fileIv = ToBase64(b.iv)
       /\ Enumerated("up") =>
            \A i \in 1..Len(table) :
               (MadeUnder(table[i], task.up.key)
                   /\ table[i].encryptionKeyHash = task.up.idx)
               => \E j \in 1..Len(filesStore') :
                     filesStore'[j] = ShownFor(table[i])
       /\ (/\ DownloadEnds
           /\ task.dl.info /= <<>> /\ task.dl.data /= <<>>
           /\ task.dl.fileInfo.id \in DOMAIN uploads
           /\ uploads[task.dl.fileInfo.id].k = task.dl.key
           /\ task.dl.data[1] = ToBase64(uploads[task.dl.fileInfo.id]))
          => /\ saved' = <<[name |-> task.dl.fileInfo.fileName,
                            data |-> uploads[task.dl.fileInfo.id].pt]>>
             /\ toastError' = toastError]_vars

\* C15 witness: the file "a" this page uploaded is in the list with its
\* name and size, and its download has saved its bytes.
C15_Witness ==
    /\ hasUploadedFiles
    /\ saved = <<FileA>>
    /\ \E j \in 1..Len(filesStore) :
          /\ filesStore[j].fileName = FileA.name
          /\ filesStore[j].fileSize = Len(FileA.data)
          /\ uploads[filesStore[j].id].pt = FileA.data

\* The download that ends in this step got no record, no blob, or a blob
\* that does not open under its key and the record's nonce.
DownloadCannotOpen ==
    \/ task.dl.info = <<>>
    \/ task.dl.data = <<>>
    \/ LET ct == task.dl.data[1].b64 IN
         \/ ct.k /= task.dl.key
         \/ ct.iv /= task.dl.info[1].fileIv.b64
         \/ ct.tag /= "ok"

\* C16: a download that gets no record or no blob, or whose blob does not
\* authenticate under the key read at the click (the key was rotated
\* since the file was listed), raises an error toast, saves no file,
\* removes its progress entry and ends.
C16_DownloadFailsLoudly ==
    [][DownloadEnds /\ DownloadCannotOpen =>
          /\ toastError' \in {"Failed to fetch file", OperationErrorMessage}
          /\ (toastError' = OperationErrorMessage <=>
                 task.dl.info /= <<>> /\ task.dl.data /= <<>>)
          /\ saved' = saved
          /\ ~IsDownloading(progress', task.dl.fileInfo.id)
          /\ task'.dl = Idle]_vars

\* C16 witness: a download of a listed file has ended with the decryption
\* error, the held key not being the key of the file's blob; nothing has
\* been saved and no progress entry is left.
C16_Witness ==
    /\ toastError = OperationErrorMessage
    /\ task.dl = Idle /\ saved = <<>> /\ progress = NoProgress
    /\ \E j \in 1..Len(filesStore) : uploads[filesStore[j].id].k /= key

\* C17: a blob exists for an id exactly when a row with that id exists -
\* in every state, so after every execution of store, failed or not, and
\* info(id) finds its row exactly when fetch(id) finds its blob.
C17_AtomicStore ==
    \A fileId \in 1..(MaxStored + 1) :
       BlobExists(uploads, fileId) <=> FindUnique(table, fileId) /= <<>>

\* C18: a store request whose file is empty is answered BAD_REQUEST, and
\* neither a row nor a blob is added: table and uploads stay as they were.
C18_EmptyBlobRejected ==
    [][storeAnswer' /= storeAnswer =>
          /\ storeAnswer' = "BAD_REQUEST"
          /\ table' = table /\ uploads' = uploads]_vars

\* C18 witness: an empty file has been refused while the server holds a
\* file this page uploaded.
C18_Witness ==
    /\ storeAnswer = "BAD_REQUEST"
    /\ hasUploadedFiles /\ table /= <<>>

\* The server answers task t's list request in this step.
Listed(t) ==
    /\ task[t].pc = "lf_wait" /\ task'[t].pc = "lf_resp"
    /\ task'[t].ok

\* The ids of a sequence of records or views, in order.
Ids(recs) == [i \in 1..Len(recs) |-> recs[i].id]

\* C19: the list the server returns for an index holds each row of that
\* index once, and no other, later-created rows before earlier ones; and
\* the list an enumeration displays is, in the same order, the returned
\* records that authenticate under the enumeration's key.
C19_NewestFirstOrder ==
    [][\A t \in LoadTasks :
         /\ Listed(t) =>
              LET data == task'[t].data IN
                /\ \A i \in 1..Len(data) :
                      \E n \in 1..Len(table) :
                         /\ table[n].id = data[i].id
                         /\ table[n].encryptionKeyHash = task[t].idx
                         /\ data[i].encryptedMetadata = table[n].encryptedMetadata
                         /\ data[i].uploadedAt = ToISOString(table[n].createdAt)
                /\ \A n \in 1..Len(table) :
                      table[n].encryptionKeyHash = task[t].idx =>
                         Cardinality({i \in 1..Len(data) :
                                         data[i].id = table[n].id}) = 1
                /\ \A i, j \in 1..Len(data) :
                      i < j => data[i].uploadedAt.iso > data[j].uploadedAt.iso
         /\ Enumerated(t) =>
              Ids(filesStore') =
                 Ids(SelectSeq(task[t].files,
                               LAMBDA r : MadeUnder(r, task[t].key)))]_vars

\* C19 witness: the list shows two files, the later upload first.
C19_Witness ==
    /\ Len(filesStore) = 2
    /\ filesStore[1].uploadedAt.iso > filesStore[2].uploadedAt.iso
    /\ task.up = Idle /\ hasUploadedFiles

\* The encrypt and submit cycle of a file begins in this step.
CycleBegins == task'.up.pc = "store_wait" /\ task.up.pc /= "store_wait"

\* The row store created for a form is in the table.
RowOf(form) ==
    \E n \in 1..Len(table) :
       /\ table[n].encryptedMetadata = form.encryptedMetadata
       /\ table[n].metadataIv = form.metadataIv
       /\ table[n].fileIv = form.fileIv

\* C20: a batch takes its files one at a time in selection order.  The
\* cycle of the first file begins at the click; the cycle of file i+1
\* begins only in the step in which the successful answer of the store
\* request for file i is taken, the row of file i being in the table; the
\* form of a cycle is made of the file at its position; and the batch
\* ends only with the answer for its last file.
C20_SequentialBatch ==
    [][/\ CycleBegins =>
            LET i == task'.up.i
                f == task'.up.files[i]
            IN /\ \/ /\ task.up.pc = "idle"
                     /\ i = 1 /\ task'.up.files = selectedFiles
                  \/ /\ task.up.pc = "store_resp" /\ task.up.ok
                     /\ i = task.up.i + 1 /\ task'.up.files = task.up.files
                     /\ RowOf(task.up.form)
               /\ task'.up.form.encryptedFile.pt = f.data
               /\ task'.up.form.encryptedMetadata.b64.pt.val.fileName = f.name
               /\ ~RowOf(task'.up.form)
       /\ (/\ task.up.pc = "store_resp" /\ task.up.ok
           /\ task'.up.pc \notin {"store_wait", "store_resp"}
           /\ events' = events)
          => task.up.i = Len(task.up.files)]_vars

\* C20 witness: the second file of a batch awaits its store request and
\* the first file's row is in the table.
C20_Witness ==
    /\ task.up.pc = "store_wait" /\ task.up.i = 2
    /\ task.up.files = <<FileB, FileA>>
    /\ \E n \in 1..Len(table) :
          /\ MadeUnder(table[n], task.up.key)
          /\ ShownFor(table[n]).fileName = FileB.name
    /\ task.up.form.encryptedFile.pt = FileA.data

\* The batch fails in this step: encryption of the file it is at, or that
\* file's store request.
BatchFails ==
    /\ task.up.pc \in {"store_wait", "store_resp"} /\ task'.up.pc = "idle"

\* The file at position j of the running batch is stored, intact.
StoredIntact(j) ==
    \E n \in 1..Len(table') :
       /\ MadeUnder(table'[n], task.up.key)
       /\ ShownFor(table'[n]).fileName = task.up.files[j].name
       /\ ShownFor(table'[n]).fileSize = Len(task.up.files[j].data)
       /\ BlobExists(uploads', table'[n].id)
       /\ uploads'[table'[n].id] =
             AesGcmEncrypt(task.up.files[j].data, task.up.key,
                           FromBase64(table'[n].fileIv))

\* C21: when encryption or the store request of file i of a batch fails,
\* an error toast is raised, no further cycle begins and nothing is
\* encrypted or stored, the files before i are stored intact, the
\* selection is kept, hasUploadedFiles is not set, and the handler ends
\* with uploading false and no progress; and every upload that is
\* running ends, with uploading false and the progress map empty.
C21_BatchFailure ==
    /\ [][BatchFails =>
            /\ toastError' /= NoToast
            /\ toastError' = IF task.up.pc = "store_resp"
                             THEN task.up.message ELSE OperationErrorMessage
            /\ (task.up.pc = "store_resp" => ~task.up.ok)
            /\ nextIv' = nextIv /\ table' = table
            /\ (task.up.pc = "store_resp" => uploads' = uploads)
            /\ \A j \in 1..(task.up.i - 1) : StoredIntact(j)
            /\ selectedFiles' = task.up.files /\ selectedFiles' /= <<>>
            /\ hasUploadedFiles' = hasUploadedFiles
            /\ ~uploading' /\ progress' = NoProgress]_vars
    /\ (uploading ~> (~uploading /\ progress = NoProgress))

\* C21 witness: the second file of a batch failed at the server; the first
\* file's row is in the table, both files are still selected, the error
\* is shown and the upload has ended.
C21_Witness ==
    /\ task.up = Idle /\ ~uploading /\ progress = NoProgress
    /\ toastError = "File upload failed"
    /\ selectedFiles = <<FileB, FileA>>
    /\ ~hasUploadedFiles
    /\ \E n \in 1..Len(table) :
          /\ MadeUnder(table[n], key)
          /\ ShownFor(table[n]).fileName = FileB.name

\* The ciphertexts the server holds: blobs and metadata.
StoredCiphertexts ==
    {uploads[n] : n \in 1..Len(uploads)}
    \cup {FromBase64(table[n].encryptedMetadata) : n \in 1..Len(table)}

\* C22: the cycle of a file makes two ciphertexts under the batch's key,
\* the content under one nonce and the metadata under another, both drawn
\* from the random generator in this step (neither drawn before, neither
\* computed from the other) and submitted as the form's fileIv and
\* metadataIv; no ciphertext the server holds under that key has either.
C22_NonceDiscipline ==
    [][CycleBegins =>
         LET form == task'.up.form
             c    == form.encryptedFile
             m    == FromBase64(form.encryptedMetadata)
         IN /\ c.k = task'.up.key /\ m.k = task'.up.key
            /\ c.iv /= m.iv
            /\ {c.iv, m.iv} = nextIv..(nextIv' - 1)
            /\ form.fileIv = ToBase64(c.iv)
            /\ form.metadataIv = ToBase64(m.iv)
            /\ \A ct \in StoredCiphertexts :
                  ct.k = c.k => ct.iv \notin {c.iv, m.iv}]_vars

\* C22 witness: a file is being uploaded under the key of a file the
\* server already holds, with four different nonces.
C22_Witness ==
    /\ task.up.pc = "store_wait"
    /\ \E n \in 1..Len(table) :
          LET m0 == FromBase64(table[n].encryptedMetadata)
              c0 == uploads[table[n].id]
              m1 == FromBase64(task.up.form.encryptedMetadata)
              c1 == task.up.form.encryptedFile
          IN /\ m0.k = task.up.key /\ c0.k = task.up.key
             /\ Cardinality({m0.iv, c0.iv, m1.iv, c1.iv}) = 4

\* C23: in every state - a setKey suspended at an await included - key,
\* keyString and keyHash are all null or are the import and the index of
\* one key string, so getKey() and getKeyHash() read together match.
C23_KeyStateConsistent ==
    \/ key = Null /\ keyString = Null /\ keyHash = Null
    \/ /\ Truthy(keyString) /\ ImportKeyOk(keyString)
       /\ key = ImportKey(keyString)
       /\ keyHash = GenerateKeyHash(keyString)

\* C24: whenever no setKey is in flight and a key is held, the key, the
\* key string, the index, both stores and (session storage working) the
\* session slot are those of one secret.
C24_QuiescentConsistency ==
    NoSetKeyInFlight /\ (Truthy(key) \/ Truthy(keyString) \/ Truthy(keyHash)) =>
       /\ ImportKeyOk(keyString) /\ key = ImportKey(keyString)
       /\ keyHash = GenerateKeyHash(keyString)
       /\ encryptionKeyStore = key
       /\ keyHashStore = keyHash
       /\ (storageOK => sessionSlot = keyString)

\* Nothing is in flight on an initialized page, its effects have run and no
\* failure has been reported.
Quiescent ==
    /\ \A t \in TaskNames : task[t].pc = "idle"
    /\ EffectsFlushed /\ ready /\ toastError = NoToast

\* Task t's enumeration has its answer and reads the key, in this step.
EnumerationReadsKey(t) == task[t].pc = "lf_resp" /\ task'[t].pc = "lf_dec"

\* C25: an enumeration decrypts with the key whose public index it queried
\* the store with; and once nothing is in flight the displayed list is the
\* views of the stored records of the held secret's index that open under
\* the held secret.
C25_DisplayedListConsistency ==
    /\ [][\A t \in LoadTasks :
            EnumerationReadsKey(t) =>
               task'[t].idx = GenerateKeyHash(ExportKey(task'[t].key))]_vars
    /\ [](Quiescent =>
            filesStore = ViewsUnder(ListFiles(table, keyHash), key))

\* keyLoadedFromExternal is set in this step.
ExternalFlagRises == ~keyLoadedFromExternal /\ keyLoadedFromExternal'

\* C26: keyLoadedFromExternal is set only by an adoption from the URL or by
\* an initialize() that read the session slot on a page holding no key yet
\* (the slot was written by an earlier page load); and when the setKey of a
\* generated key completes and that key is the one held, the flag is false.
C26_WarningAccuracy ==
    [][/\ (ExternalFlagRises =>
             \E t \in {"init", "hc"} :
                /\ SetKeyCompletes(t)
                /\ \/ task[t].src = "url"
                   \/ task[t].src = "ses" /\ ~Truthy(task[t].prev))
       /\ (\A t \in {"init", "rot"} :
             /\ SetKeyCompletes(t) /\ task[t].src = "gen"
             /\ keyString' = task[t].ks
             => ~keyLoadedFromExternal')]_vars

\* C27: whenever linkSaved is true, the clipboard holds a share link whose
\* fragment carries the held key string.
C27_LinkSavedAccuracy ==
    linkSaved =>
       /\ Truthy(clipboard)
       /\ Truthy(keyString)
       /\ KeyFromUrl(clipboard) = keyString

\* The upload handler returns from its batch in this step.
BatchEnds ==
    /\ task.up.pc \in {"store_wait", "store_resp"}
    /\ task'.up.pc \notin {"store_wait", "store_resp"}

\* The running batch has had at least one of its files stored.
BatchStoredSome ==
    \/ task.up.i > 1
    \/ task.up.pc = "store_resp" /\ task.up.ok

\* C28: when an upload batch that has stored at least one record ends - a
\* later file of it having failed or not - hasUploadedFiles is true.
C28_UploadedFlagArmed ==
    [][BatchEnds /\ BatchStoredSome => hasUploadedFiles']_vars

\* The files of a sequence.
FilesOf(fs) == {fs[n] : n \in 1..Len(fs)}

\* The batch ends with its last file stored, in this step (lines 250-251).
BatchSucceeds ==
    /\ task.up.pc = "store_resp" /\ task'.up.pc = "lf_wait"

\* C29: the selection a successful batch clears holds only files the batch
\* has stored, and a file the server stores for a batch is in the
\* selection at that moment.
C29_SelectionAgreement ==
    [][/\ (BatchSucceeds =>
             /\ selectedFiles' = <<>>
             /\ FilesOf(selectedFiles) \subseteq FilesOf(task.up.files))
       /\ (Stored =>
             task.up.files[task.up.i] \in FilesOf(selectedFiles))]_vars

====
